---------------------------- MODULE Spec2Model ----------------------------
(***************************************************************************)
(* Model of the structured logger of package base (src/log.go):            *)
(* StdLogger, its level gate, its line composer (render / makeFlat), its   *)
(* key/value normalizer (rectify) and its value renderer (prettifyValue);  *)
(* and of the rate setters of Router (src/router.go).                      *)
(*                                                                         *)
(* Go strings are TLA+ strings (Len, \o and SubSeq act on their bytes).    *)
(* Go values of dynamic type are records tagged by "kind".                 *)
(***************************************************************************)
EXTENDS Integers, Sequences, FiniteSets, TLC

VARIABLES
    level,        \* StdLogger.level
    prefix,       \* StdLogger.prefix
    valuesStr,    \* StdLogger.valuesStr
    output,       \* StdLogger.output
    sink,         \* lines handed to sl.logger.Output, oldest first
    calls,        \* history: the call that produced each line of sink
    enabledRet,   \* history: argument and result of the last Enabled call
    lastSet,      \* history: the level last given to SetLevel (or to NewLogger),
                  \* and whether SetLevel was called at all (calls: 0 or 1)
    rectIn,       \* argument of rectify
    rectOut,      \* result of rectify, a Go slice
    pvIn,         \* argument of prettifyValue
    pvOut,        \* result of prettifyValue, a Go string
    gor,          \* the goroutine running a log call: its position and locals
    wr,           \* the goroutine running SetLevel: the write of level in flight
    race,         \* history: a read or write of level overlapped a write of it
    router        \* Router: hourlyRate, dailyRate, whether a call panicked, and
                  \* history: the last rate setter called and its argument

vars == <<level, prefix, valuesStr, output, sink, calls, enabledRet, lastSet,
          rectIn, rectOut, pvIn, pvOut, gor, wr, race, router>>

loggerVars == <<level, prefix, valuesStr, output, sink, calls, enabledRet, lastSet>>
pureVars == <<rectIn, rectOut, pvIn, pvOut>>
concVars == <<gor, wr, race>>

---------------------------------------------------------------------------
(* Bounds *)

MaxLines == 1      \* lines kept in sink
MaxKv == 3         \* longest key/value list handed to rectify
MaxFields == 3     \* most fields of a generated struct type
MaxChain == 2      \* longest chain of Log() results of a generated value
MaxReqs == 6       \* largest argument (in absolute value) of the rate setters

---------------------------------------------------------------------------
(* Program constants *)

noVal == "[n/a]"
maxLen == 16

LogLevel == [None |-> "none", Debug |-> "debug", Info |-> "info",
             Error |-> "error", All |-> "all"]

LogOutput == [KeyValue |-> "keyvalue", JSON |-> "json"]

None == [kind |-> "none"]

hourInSecs == 3600
dayInSecs == hourInSecs * 24

\* the Router NewRouter returns: both rates 0, nothing called yet
NewRouter ==
    [hourlyRate |-> 0, dailyRate |-> 0, panicked |-> FALSE, op |-> "", n |-> 0]

---------------------------------------------------------------------------
(* Go values *)

NilV == [kind |-> "nil"]
Str(s) == [kind |-> "string", s |-> s]
IntV(n) == [kind |-> "int", n |-> n]
BoolV(b) == [kind |-> "bool", b |-> b]
ErrV(m) == [kind |-> "error", msg |-> m]
StringerV(s) == [kind |-> "stringer", str |-> s]
PtrV(v) == [kind |-> "ptr", elem |-> v]
SliceV(es) == [kind |-> "slice", elems |-> es]
StructV(fs) == [kind |-> "struct", fields |-> fs]
ChanV == [kind |-> "chan"]

\* a value of a declared type with methods: the interfaces it implements
\* (caps, among "Marshalable", "Stringer", "error"), what Log(), String() and
\* Error() return, and the plain value under, which reflection sees
ObjV(caps, log, str, msg, under) ==
    [kind |-> "object", caps |-> caps, log |-> log, str |-> str, msg |-> msg,
     under |-> under]

\* value.(Marshalable), value.(fmt.Stringer), value.(error)
isMarshalable(v) == v.kind = "object" /\ "Marshalable" \in v.caps
isStringer(v) == v.kind = "stringer" \/ (v.kind = "object" /\ "Stringer" \in v.caps)
isError(v) == v.kind = "error" \/ (v.kind = "object" /\ "error" \in v.caps)

\* reflect.StructField together with the field's value
Fld(name, pkgPath, tagFound, tag, anonymous, val) ==
    [Name |-> name, PkgPath |-> pkgPath, tagFound |-> tagFound, tag |-> tag,
     Anonymous |-> anonymous, val |-> val]

---------------------------------------------------------------------------
(* Library functions, as the code uses them *)

Quot == "\""

\* strings.Index(s, ","): index of the first comma, -1 when there is none
RECURSIVE IndexFrom(_, _, _)
IndexFrom(s, c, i) ==
    IF i >= Len(s) THEN -1
    ELSE IF SubSeq(s, i + 1, i + 1) = c THEN i
    ELSE IndexFrom(s, c, i + 1)

Index(s, c) == IndexFrom(s, c, 0)

HasSuffix(s, suf) ==
    /\ Len(s) >= Len(suf)
    /\ SubSeq(s, Len(s) - Len(suf) + 1, Len(s)) = suf

Contains(s, sub) ==
    \E i \in 1..(Len(s) - Len(sub) + 1) : SubSeq(s, i, i + Len(sub) - 1) = sub

\* strconv.FormatInt(n, 10)
RECURSIVE FormatUint(_)
FormatUint(n) ==
    IF n < 10 THEN SubSeq("0123456789", n + 1, n + 1)
    ELSE FormatUint(n \div 10) \o SubSeq("0123456789", (n % 10) + 1, (n % 10) + 1)

FormatInt(n) == IF n < 0 THEN "-" \o FormatUint(0 - n) ELSE FormatUint(n)

FormatBool(b) == IF b THEN "true" ELSE "false"

\* strconv.IsPrint over the characters the model uses
IsPrint(c) == c \notin {"\n", "\t"}

\* strconv.Quote
RECURSIVE QuoteBody(_, _)
QuoteBody(s, i) ==
    IF i > Len(s) THEN ""
    ELSE LET c == SubSeq(s, i, i)
             e == IF c = Quot THEN "\\\""
                  ELSE IF c = "\\" THEN "\\\\"
                  ELSE IF c = "\n" THEN "\\n"
                  ELSE IF c = "\t" THEN "\\t"
                  ELSE c
         IN e \o QuoteBody(s, i + 1)

Quote(s) == Quot \o QuoteBody(s, 1) \o Quot

---------------------------------------------------------------------------
(* ValueRenderer *)

escape(str) ==
    \E i \in 1..Len(str) :
        LET s == SubSeq(str, i, i)
        IN ~IsPrint(s) \/ s = "\\" \/ s = Quot

prettify(str) == IF escape(str) THEN Quote(str) ELSE Quot \o str \o Quot

isEmpty(val) ==
    CASE val.kind = "slice" -> Len(val.elems) = 0
      [] val.kind = "string" -> Len(val.s) = 0
      [] val.kind = "bool" -> ~val.b
      [] val.kind = "int" -> val.n = 0
      [] val.kind \in {"nil", "ptr"} -> val.kind = "nil"
      [] OTHER -> FALSE

\* the effect of the json tag of a struct field: skip the field, rename it,
\* omit it when empty
tagOf(fld) ==
    IF ~fld.tagFound THEN [skip |-> FALSE, name |-> "", omitempty |-> FALSE]
    ELSE IF fld.tag = "-" THEN [skip |-> TRUE, name |-> "", omitempty |-> FALSE]
    ELSE LET comma == Index(fld.tag, ",")
         IN IF comma # -1
            THEN LET rest == SubSeq(fld.tag, comma + 1, Len(fld.tag))
                 IN [skip |-> FALSE,
                     name |-> SubSeq(fld.tag, 1, comma),
                     omitempty |-> Contains(rest, ",omitempty,")
                                   \/ HasSuffix(rest, ",omitempty")]
            ELSE [skip |-> FALSE, name |-> fld.tag, omitempty |-> FALSE]

RECURSIVE prettifyValue(_)
RECURSIVE structFields(_, _)
RECURSIVE sliceElems(_, _)

\* the loop over the fields of a struct, from field i (0-based) on
structFields(flds, i) ==
    IF i >= Len(flds) THEN ""
    ELSE LET fld == flds[i + 1]
             t == tagOf(fld)
             this ==
                 IF fld.PkgPath # "" THEN ""
                 ELSE IF t.skip THEN ""
                 ELSE IF t.omitempty /\ isEmpty(fld.val) THEN ""
                 ELSE (IF i > 0 THEN "," ELSE "") \o
                      (IF fld.Anonymous /\ fld.val.kind = "struct" /\ t.name = ""
                       THEN prettifyValue(fld.val)
                       ELSE Quot \o (IF t.name = "" THEN fld.Name ELSE t.name)
                            \o Quot \o ":" \o prettifyValue(fld.val))
         IN this \o structFields(flds, i + 1)

\* the loop over the elements of a slice, from element i (0-based) on
sliceElems(es, i) ==
    IF i >= Len(es) THEN ""
    ELSE (IF i > 0 THEN "," ELSE "") \o prettifyValue(es[i + 1])
         \o sliceElems(es, i + 1)

prettifyValue(value) ==
    LET v1 == IF isMarshalable(value) THEN value.log ELSE value
        v2 == CASE isStringer(v1) -> Str(v1.str)
                [] isError(v1) -> Str(v1.msg)
                [] OTHER -> v1
    IN CASE v2.kind = "bool" -> FormatBool(v2.b)
         [] v2.kind = "string" -> prettify(v2.s)
         [] v2.kind = "int" -> FormatInt(v2.n)
         [] v2.kind = "nil" -> "null"
         [] v2.kind = "struct" -> "{" \o structFields(v2.fields, 0) \o "}"
         [] v2.kind = "slice" -> "[" \o sliceElems(v2.elems, 0) \o "]"
         [] v2.kind = "ptr" -> prettifyValue(v2.elem)
         [] v2.kind = "object" -> prettifyValue(v2.under)
         [] OTHER -> Quot \o "[" \o v2.kind \o "]" \o Quot

---------------------------------------------------------------------------
(* KeyValueNormalizer *)

\* stringify without the cut to maxLen
stringifyUncut(val) == prettifyValue(val)

stringify(val) ==
    LET stringed == prettifyValue(val)
    IN IF Len(stringed) > maxLen THEN SubSeq(stringed, 1, maxLen) ELSE stringed

nonStringKey(v) == stringify(v)

\* rectify without the padding of an odd list
rectifyUnpadded(kvList) ==
    [i \in 1..Len(kvList) |->
        IF (i - 1) % 2 = 0 /\ kvList[i].kind # "string"
        THEN Str(nonStringKey(kvList[i]))
        ELSE kvList[i]]

rectify(kvList) ==
    LET padded == IF Len(kvList) % 2 # 0 THEN Append(kvList, Str(noVal)) ELSE kvList
    IN [i \in 1..Len(padded) |->
            IF (i - 1) % 2 = 0 /\ padded[i].kind # "string"
            THEN Str(nonStringKey(padded[i]))
            ELSE padded[i]]

---------------------------------------------------------------------------
(* LineComposer *)

\* sl.jsonOutput(), on the value lvl read from sl.level
jsonOutput(lvl) == lvl = LogOutput.JSON

\* makeFlat, pair i (0-based index of its key): the separator before it
flatSep(json, i, keepOn) ==
    IF i > 0 \/ keepOn THEN (IF json THEN "," ELSE " ") ELSE ""

\* makeFlat, pair i: the key as written
flatKey(kvList, i, escapeKeys) ==
    LET k == IF kvList[i + 1].kind = "string" THEN kvList[i + 1].s
             ELSE nonStringKey(kvList[i + 1])
    IN IF escapeKeys THEN prettify(k) ELSE Quot \o k \o Quot

\* makeFlat, pair i: the delimiter and the rendered value
flatVal(json, kvList, i) ==
    (IF json THEN ":" ELSE "=") \o prettifyValue(kvList[i + 2])

\* makeFlat's padding of an odd list
flatPad(kvList) ==
    IF Len(kvList) % 2 # 0 THEN Append(kvList, Str(noVal)) ELSE kvList

RECURSIVE makeFlatFrom(_, _, _, _, _)
makeFlatFrom(lvl, kvList, i, keepOn, escapeKeys) ==
    IF i >= Len(kvList) THEN ""
    ELSE flatSep(jsonOutput(lvl), i, keepOn)
         \o flatKey(kvList, i, escapeKeys)
         \o flatVal(jsonOutput(lvl), kvList, i)
         \o makeFlatFrom(lvl, kvList, i + 2, keepOn, escapeKeys)

\* the text makeFlat writes to buf
makeFlat(lvl, kvList, keepOn, escapeKeys) ==
    makeFlatFrom(lvl, flatPad(kvList), 0, keepOn, escapeKeys)

\* render, the bound fields between the implicit and the call-site fields
renderBound(json, vs, keepOn) ==
    IF Len(vs) > 0 THEN (IF keepOn THEN (IF json THEN "," ELSE " ") ELSE "") \o vs
    ELSE ""

render(lvl, vs, implicit, args) ==
    LET keepOn == Len(implicit) > 0
    IN (IF jsonOutput(lvl) THEN "{" ELSE "")
       \o makeFlat(lvl, rectify(implicit), FALSE, FALSE)
       \o renderBound(jsonOutput(lvl), vs, keepOn)
       \o makeFlat(lvl, rectify(args), keepOn \/ Len(vs) > 0, TRUE)
       \o (IF jsonOutput(lvl) THEN "}" ELSE "")

\* the implicit fields of a Debug or Info call, and the prefix left to the caller
implicitOf(json, pfx, ts, msg) ==
    (IF json THEN <<Str("logger"), Str(pfx)>> ELSE <<>>)
    \o <<Str("ts"), Str(ts), Str("msg"), Str(msg)>>

FormatDebug(lvl, pfx, vs, ts, msg, kvList) ==
    <<IF jsonOutput(lvl) THEN "" ELSE pfx,
      render(lvl, vs, implicitOf(jsonOutput(lvl), pfx, ts, msg), kvList)>>

FormatInfo(lvl, pfx, vs, ts, msg, kvList) ==
    <<IF jsonOutput(lvl) THEN "" ELSE pfx,
      render(lvl, vs, implicitOf(jsonOutput(lvl), pfx, ts, msg), kvList)>>

FormatError(lvl, pfx, vs, ts, err, msg, kvList) ==
    LET logErr == IF err # NilV THEN Str(err.msg) ELSE NilV
    IN <<IF jsonOutput(lvl) THEN "" ELSE pfx,
         render(lvl, vs,
                implicitOf(jsonOutput(lvl), pfx, ts, msg) \o <<Str("error"), logErr>>,
                kvList)>>

\* the line Debug, Info and Error hand to sl.logger.Output
lineOf(fmt) == IF fmt[1] # "" THEN fmt[1] \o ": " \o fmt[2] ELSE fmt[2]

---------------------------------------------------------------------------
(* Inputs *)

LevelInputs == {LogLevel.None, LogLevel.Debug, LogLevel.Info, LogLevel.Error,
                LogLevel.All, LogOutput.JSON}
PrefixInputs == {"svc", ""}
OutputInputs == {LogOutput.KeyValue, LogOutput.JSON}
Timestamps == {"2026-11-01 13:08:00.000000"}
Messages == {"started"}
ErrInputs == {NilV, ErrV("boom")}
LogKvs == {<<>>, <<Str("port"), IntV(8080)>>}

Idle == [pc |-> "idle"]
NoWrite == [pc |-> "idle"]

---------------------------------------------------------------------------
(* Logger facade: NewLogger, then whole calls one after the other *)

Init ==
    /\ level \in LevelInputs
    /\ prefix \in PrefixInputs
    /\ valuesStr = ""
    /\ output \in OutputInputs
    /\ sink = <<>>
    /\ calls = <<>>
    /\ enabledRet = None
    /\ lastSet = [lvl |-> level, calls |-> 0]
    /\ rectIn = None /\ rectOut = None /\ pvIn = None /\ pvOut = None
    /\ gor = Idle /\ wr = NoWrite /\ race = FALSE
    /\ router = NewRouter

\* a severity ordering of the levels, which Enabled does not use
severity(l) ==
    CASE l = LogLevel.None -> 0
      [] l = LogLevel.Debug -> 1
      [] l = LogLevel.Info -> 2
      [] l = LogLevel.Error -> 3
      [] OTHER -> 4

enabledHierarchical(lvl, l) == severity(lvl) <= severity(l)

\* the result of Enabled(l) at configured level lvl
enabled(lvl, l) == lvl = l

Enabled(l) ==
    /\ enabledRet' = [arg |-> l, ret |-> enabled(level, l), set |-> lastSet]
    /\ UNCHANGED <<level, prefix, valuesStr, output, sink, calls, lastSet>>
    /\ UNCHANGED pureVars /\ UNCHANGED router /\ UNCHANGED concVars

SetLevel(l) ==
    /\ level' = l
    /\ lastSet' = [lvl |-> l, calls |-> 1]
    /\ UNCHANGED <<prefix, valuesStr, output, sink, calls, enabledRet>>
    /\ UNCHANGED pureVars /\ UNCHANGED router /\ UNCHANGED concVars

\* the history entry of a log call: its arguments, and whether the logger
\* was enabled for the call's level when the call was made
callOf(kind, ts, err, msg, kvList) ==
    [kind |-> kind, ts |-> ts, err |-> err, msg |-> msg, kv |-> kvList,
     enabled |-> enabled(level, kind)]

Debug(ts, msg, kvList) ==
    /\ Len(sink) < MaxLines
    /\ sink' = Append(sink, lineOf(FormatDebug(level, prefix, valuesStr, ts, msg, kvList)))
    /\ calls' = Append(calls, callOf(LogLevel.Debug, ts, NilV, msg, kvList))
    /\ UNCHANGED <<level, prefix, valuesStr, output, enabledRet, lastSet>>
    /\ UNCHANGED pureVars /\ UNCHANGED router /\ UNCHANGED concVars

Info(ts, msg, kvList) ==
    /\ Len(sink) < MaxLines
    /\ sink' = Append(sink, lineOf(FormatInfo(level, prefix, valuesStr, ts, msg, kvList)))
    /\ calls' = Append(calls, callOf(LogLevel.Info, ts, NilV, msg, kvList))
    /\ UNCHANGED <<level, prefix, valuesStr, output, enabledRet, lastSet>>
    /\ UNCHANGED pureVars /\ UNCHANGED router /\ UNCHANGED concVars

Error(ts, err, msg, kvList) ==
    /\ Len(sink) < MaxLines
    /\ sink' = Append(sink, lineOf(FormatError(level, prefix, valuesStr, ts, err, msg, kvList)))
    /\ calls' = Append(calls, callOf(LogLevel.Error, ts, err, msg, kvList))
    /\ UNCHANGED <<level, prefix, valuesStr, output, enabledRet, lastSet>>
    /\ UNCHANGED pureVars /\ UNCHANGED router /\ UNCHANGED concVars

Next ==
    \/ \E l \in LevelInputs : Enabled(l)
    \/ \E l \in LevelInputs : SetLevel(l)
    \/ \E ts \in Timestamps, msg \in Messages, kv \in LogKvs : Debug(ts, msg, kv)
    \/ \E ts \in Timestamps, msg \in Messages, kv \in LogKvs : Info(ts, msg, kv)
    \/ \E ts \in Timestamps, err \in ErrInputs, msg \in Messages, kv \in LogKvs :
          Error(ts, err, msg, kv)

Spec == Init /\ [][Next]_vars

---------------------------------------------------------------------------
(* Claims about the logger facade *)

\* C1: after any sequence of SetLevel calls, Enabled(l) returns true exactly
\* when l is string-equal to the level most recently set (the construction
\* level when SetLevel was never called): there is no severity hierarchy.
C1_EnabledExactMatch ==
    enabledRet # None => (enabledRet.ret <=> (enabledRet.arg = enabledRet.set.lvl))

\* a logger set to "debug" by SetLevel was asked Enabled("info") and said no
C1_Witness ==
    /\ enabledRet # None
    /\ enabledRet.set = [lvl |-> LogLevel.Debug, calls |-> 1]
    /\ enabledRet.arg = LogLevel.Info
    /\ enabledRet.ret = FALSE

\* C2: Debug, Info and Error are level-gated: a call made while the logger is
\* not enabled for that call's level writes no line to the sink, so every
\* line of the sink comes from a call made at the call's own level.
C2_LevelGated ==
    \A i \in 1..Len(sink) : calls[i].enabled

\* a line is composed in JSON mode when it is brace-delimited
startsJSON(line) == Len(line) > 0 /\ SubSeq(line, 1, 1) = "{"

\* C3: the output mode is fixed at construction and independent of the
\* level: a logger constructed with output "json" composes every line in
\* JSON mode, one constructed with "keyvalue" composes every line in flat
\* mode, whatever the construction level and the SetLevel calls.
C3_ModeFixedAtConstruction ==
    \A i \in 1..Len(sink) : startsJSON(sink[i]) <=> (output = LogOutput.JSON)

\* C4: the line of Info("started", "port", 8080) on a logger named "svc" at
\* timestamp T is  svc: "ts"="T" "msg"="started" "port"=8080  in keyvalue mode
\* and  {"logger":"svc","ts":"T","msg":"started","port":8080}  in json mode.
C4_LineShape ==
    \A i \in 1..Len(sink) :
        (/\ prefix = "svc"
         /\ calls[i].kind = LogLevel.Info
         /\ calls[i].msg = "started"
         /\ calls[i].kv = <<Str("port"), IntV(8080)>>)
        => sink[i] =
             IF output = LogOutput.KeyValue
             THEN "svc: \"ts\"=\"" \o calls[i].ts
                  \o "\" \"msg\"=\"started\" \"port\"=8080"
             ELSE "{\"logger\":\"svc\",\"ts\":\"" \o calls[i].ts
                  \o "\",\"msg\":\"started\",\"port\":8080}"

---------------------------------------------------------------------------
(* KeyValueNormalizer on its own: rectify applied to a drawn list *)

\* `{"Name":"abcdefghij"}` renders to 21 characters,
\* the Stringer to exactly 16 with its quotes
LongStruct == StructV(<<Fld("Name", "", FALSE, "", FALSE, Str("abcdefghij"))>>)

\* TLA+ strings hold ASCII only.  A two-byte UTF-8 character (such as the
\* C3 A9 of e-acute) is written as its two bytes: a lead byte, here "e", and
\* a continuation byte, for which "~" stands.
ContByte == "~"

\* a Stringer whose text is 9 two-byte characters: its rendering has 11
\* characters in 20 bytes
AccentedStringer == StringerV("e~e~e~e~e~e~e~e~e~")

KvItems == {Str("port"), IntV(8080), BoolV(TRUE), NilV, LongStruct,
            StringerV("abcdefghijklmn"), AccentedStringer}

SeqsUpTo(S, n) == UNION {[1..k -> S] : k \in 0..n}

KvInputs == SeqsUpTo(KvItems, MaxKv)

\* a logger as NewLogger("info", "svc", "keyvalue") makes it, nothing logged
loggerAtRest ==
    /\ level = LogLevel.Info
    /\ prefix = "svc"
    /\ valuesStr = ""
    /\ output = LogOutput.KeyValue
    /\ sink = <<>>
    /\ calls = <<>>
    /\ enabledRet = None
    /\ lastSet = [lvl |-> level, calls |-> 0]

InitRectify ==
    /\ loggerAtRest
    /\ rectIn \in KvInputs
    /\ rectOut = None /\ pvIn = None /\ pvOut = None
    /\ gor = Idle /\ wr = NoWrite /\ race = FALSE
    /\ router = NewRouter

Rectify ==
    /\ rectOut = None
    /\ rectOut' = SliceV(rectify(rectIn))
    /\ UNCHANGED <<rectIn, pvIn, pvOut>>
    /\ UNCHANGED loggerVars /\ UNCHANGED concVars /\ UNCHANGED router

NextRectify == Rectify

SpecRectify == InitRectify /\ [][NextRectify]_vars

\* C7: normalization always succeeds and drops nothing: the result has even
\* length, every even (0-based) index holds a string key, every value and
\* every string key keeps its position, an odd-length input gets exactly one
\* more item, the sentinel "[n/a]" as the value of the last key, and an
\* even-length input keeps its length.
C7_RectifyPads ==
    rectOut # None =>
        /\ Len(rectOut.elems) % 2 = 0
        /\ \A i \in 1..Len(rectOut.elems) : i % 2 = 1 => rectOut.elems[i].kind = "string"
        /\ \A i \in 1..Len(rectIn) :
               (i % 2 = 0 \/ rectIn[i].kind = "string") => rectOut.elems[i] = rectIn[i]
        /\ Len(rectIn) % 2 = 1 =>
               /\ Len(rectOut.elems) = Len(rectIn) + 1
               /\ rectOut.elems[Len(rectOut.elems)] = Str("[n/a]")
        /\ Len(rectIn) % 2 = 0 => Len(rectOut.elems) = Len(rectIn)

\* an odd-length list was normalized
C7_Witness ==
    /\ rectOut # None
    /\ Len(rectIn) = 3
    /\ Len(rectOut.elems) = 4
    /\ rectOut.elems[4] = Str("[n/a]")

\* the number of characters of a string: its bytes less the continuation bytes
RuneCount(s) == Cardinality({i \in 1..Len(s) : SubSeq(s, i, i) # ContByte})

\* C8 as stated: a non-string item in a key position becomes its rendering
\* truncated to at most 16 characters, unchanged when the rendering has 16
\* characters or fewer; a string key is left untouched.
C8_KeyCutToCharacters ==
    rectOut # None =>
        \A i \in 1..Len(rectIn) :
            i % 2 = 1 =>
                LET r == prettifyValue(rectIn[i])
                IN IF rectIn[i].kind = "string"
                   THEN rectOut.elems[i] = rectIn[i]
                   ELSE /\ rectOut.elems[i].kind = "string"
                        /\ RuneCount(rectOut.elems[i].s) <= 16
                        /\ RuneCount(r) <= 16 => rectOut.elems[i].s = r

\* C8, amended: a non-string item in a key position becomes its rendering
\* truncated to at most 16 bytes (unchanged when the rendering has 16 bytes
\* or fewer); a string key is left untouched.
C8_NonStringKey ==
    rectOut # None =>
        \A i \in 1..Len(rectIn) :
            i % 2 = 1 =>
                LET r == prettifyValue(rectIn[i])
                IN IF rectIn[i].kind = "string"
                   THEN rectOut.elems[i] = rectIn[i]
                   ELSE /\ rectOut.elems[i].kind = "string"
                        /\ Len(rectOut.elems[i].s) <= 16
                        /\ rectOut.elems[i].s = (IF Len(r) <= 16 THEN r ELSE SubSeq(r, 1, 16))

\* a struct key rendering to 21 characters was cut to 16, and a key
\* rendering to exactly 16 characters was kept whole
C8_Witness ==
    /\ rectOut # None
    /\ Len(rectIn) = 3
    /\ rectIn[1] = LongStruct
    /\ rectOut.elems[1] = Str("{\"Name\":\"abcdefg")
    /\ rectIn[3] = StringerV("abcdefghijklmn")
    /\ rectOut.elems[3] = Str("\"abcdefghijklmn\"")

---------------------------------------------------------------------------
(* ValueRenderer on its own: prettifyValue applied to a drawn struct *)

InnerStruct == StructV(<<Fld("X", "", FALSE, "", FALSE, IntV(1))>>)

FieldPool ==
    {Fld("A", "", FALSE, "", FALSE, IntV(0)),
     Fld("B", "", TRUE, "b,omitempty", FALSE, Str("")),
     Fld("B", "", TRUE, "b,omitempty", FALSE, Str("x")),
     Fld("c", "base", FALSE, "", FALSE, IntV(1)),
     Fld("D", "", TRUE, "-", FALSE, IntV(2)),
     Fld("Inner", "", FALSE, "", TRUE, InnerStruct),
     Fld("Inner", "", TRUE, "in", TRUE, InnerStruct)}

\* the field lists of struct types: field names are distinct
FieldLists ==
    {fs \in SeqsUpTo(FieldPool, MaxFields) :
        \A i, j \in 1..Len(fs) : i # j => fs[i].Name # fs[j].Name}

StructInputs == {StructV(fs) : fs \in FieldLists}

InitRender ==
    /\ loggerAtRest
    /\ pvIn \in StructInputs
    /\ pvOut = None /\ rectIn = None /\ rectOut = None
    /\ gor = Idle /\ wr = NoWrite /\ race = FALSE
    /\ router = NewRouter

PrettifyValue ==
    /\ pvOut = None
    /\ pvOut' = Str(prettifyValue(pvIn))
    /\ UNCHANGED <<pvIn, rectIn, rectOut>>
    /\ UNCHANGED loggerVars /\ UNCHANGED concVars /\ UNCHANGED router

NextRender == PrettifyValue

SpecRender == InitRender /\ [][NextRender]_vars

RECURSIVE JoinComma(_)
JoinComma(ss) ==
    IF Len(ss) = 0 THEN ""
    ELSE IF Len(ss) = 1 THEN ss[1]
    ELSE ss[1] \o "," \o JoinComma(Tail(ss))

\* the documented inclusion rule: exported, not tagged "-", and not an
\* omit-if-empty field whose value is empty
included(fld) ==
    /\ fld.PkgPath = ""
    /\ ~(fld.tagFound /\ fld.tag = "-")
    /\ ~(tagOf(fld).omitempty /\ isEmpty(fld.val))

\* the documented inlining rule: anonymous, of struct kind, not renamed
inlined(fld) ==
    fld.Anonymous /\ fld.val.kind = "struct" /\ tagOf(fld).name = ""

\* the documented entries of a field list: "name":value for each included
\* field, the entries of an inlined field's own fields in its place
RECURSIVE entriesOf(_)
entriesOf(flds) ==
    IF Len(flds) = 0 THEN <<>>
    ELSE LET fld == Head(flds)
             own == IF ~included(fld) THEN <<>>
                    ELSE IF inlined(fld) THEN entriesOf(fld.val.fields)
                    ELSE <<Quot \o (IF tagOf(fld).name = "" THEN fld.Name
                                    ELSE tagOf(fld).name)
                           \o Quot \o ":" \o prettifyValue(fld.val)>>
         IN own \o entriesOf(Tail(flds))

\* C9: a struct renders as "{" + the entries of its included fields joined
\* by single commas + "}": an unexported, skipped or omitted-as-empty field
\* contributes nothing, no comma either, whatever its position.  (Stated for
\* structs without an inlined embedded struct, the case of C10.)
C9_StructCommas ==
    (pvOut # None /\ \A i \in 1..Len(pvIn.fields) : ~inlined(pvIn.fields[i]))
    => pvOut = Str("{" \o JoinComma(entriesOf(pvIn.fields)) \o "}")

\* C10: an anonymous embedded struct field with no renaming tag is inlined:
\* its fields appear as "name":value entries directly in the parent's field
\* list, with no enclosing key and no nested braces.  (Stated for structs
\* all of whose fields are included, where the commas of C9 are right.)
C10_EmbeddedInlined ==
    (/\ pvOut # None
     /\ \E i \in 1..Len(pvIn.fields) : inlined(pvIn.fields[i])
     /\ \A i \in 1..Len(pvIn.fields) : included(pvIn.fields[i]))
    => pvOut = Str("{" \o JoinComma(entriesOf(pvIn.fields)) \o "}")

---------------------------------------------------------------------------
(* Concurrency: one goroutine in a log call, one in SetLevel.               *)
(* StdLogger has no lock and level is a plain string field, so a log call  *)
(* is a sequence of steps, one for each read of sl.level (each call of     *)
(* jsonOutput), and the store of SetLevel, which writes the two words of a *)
(* string, has a beginning and an end.                                     *)

writing == wr.pc = "writing"

\* what a read of sl.level can return: the stored value, or during a store
\* the value being stored.  (A torn read mixes the words of the two strings
\* and compares equal to "json" only if one of them does.)
readLevel == IF writing THEN {level, wr.val} ELSE {level}

\* the levels the two goroutines use
ConcLevels == {LogLevel.Info, LogOutput.JSON}

InitConc ==
    /\ level \in ConcLevels
    /\ prefix = "svc"
    /\ valuesStr = ""
    /\ output = LogOutput.JSON
    /\ sink = <<>>
    /\ calls = <<>>
    /\ enabledRet = None
    /\ lastSet = [lvl |-> level, calls |-> 0]
    /\ rectIn = None /\ rectOut = None /\ pvIn = None /\ pvOut = None
    /\ gor = Idle /\ wr = NoWrite /\ race = FALSE
    /\ router = NewRouter

\* SetLevel: the store sl.level = level begins
SetLevelBegin(l) ==
    /\ wr.pc = "idle"
    /\ wr' = [pc |-> "writing", val |-> l]
    /\ UNCHANGED <<gor, race>>
    /\ UNCHANGED loggerVars /\ UNCHANGED pureVars /\ UNCHANGED router

\* SetLevel: the store is complete
SetLevelEnd ==
    /\ writing
    /\ level' = wr.val
    /\ lastSet' = [lvl |-> wr.val, calls |-> 1]
    /\ wr' = NoWrite
    /\ UNCHANGED <<prefix, valuesStr, output, sink, calls, enabledRet, gor, race>>
    /\ UNCHANGED pureVars /\ UNCHANGED router

\* Enabled, called by the logging goroutine between two log calls
EnabledRead(l) ==
    /\ gor.pc = "idle"
    /\ \E lvl \in readLevel :
          enabledRet' = [arg |-> l, ret |-> enabled(lvl, l), set |-> lastSet]
    /\ race' = (race \/ writing)
    /\ UNCHANGED <<level, prefix, valuesStr, output, sink, calls, lastSet, gor, wr>>
    /\ UNCHANGED pureVars /\ UNCHANGED router

\* where makeFlat goes after pair i of list: its next pair, or back to render
afterPair(list, i, phase) ==
    IF i < Len(list) THEN "sep"
    ELSE IF phase = 1 THEN "bound" ELSE "close"

\* Debug / Info / Error up to the jsonOutput() of FormatDebug / FormatInfo /
\* FormatError: the implicit fields and the prefix are decided
LogFormat(kind, ts, err, msg, kvList) ==
    /\ gor.pc = "idle"
    /\ Len(sink) < MaxLines
    /\ \E lvl \in readLevel :
          gor' = [pc |-> "open",
                  call |-> callOf(kind, ts, err, msg, kvList),
                  prefix |-> IF jsonOutput(lvl) THEN "" ELSE prefix,
                  implicit |->
                      implicitOf(jsonOutput(lvl), prefix, ts, msg)
                      \o (IF kind = LogLevel.Error
                          THEN <<Str("error"),
                                 IF err # NilV THEN Str(err.msg) ELSE NilV>>
                          ELSE <<>>),
                  args |-> kvList,
                  list |-> <<>>, i |-> 0, phase |-> 1, keepOn |-> FALSE,
                  buf |-> ""]
    /\ race' = (race \/ writing)
    /\ UNCHANGED <<wr>>
    /\ UNCHANGED loggerVars /\ UNCHANGED pureVars /\ UNCHANGED router

\* render: the opening brace, and rectify(implicit)
LogOpen ==
    /\ gor.pc = "open"
    /\ \E lvl \in readLevel :
          gor' = [gor EXCEPT
                    !.buf = IF jsonOutput(lvl) THEN "{" ELSE "",
                    !.list = flatPad(rectify(gor.implicit)),
                    !.pc = afterPair(flatPad(rectify(gor.implicit)), 0, 1)]
    /\ race' = (race \/ writing)
    /\ UNCHANGED <<wr>>
    /\ UNCHANGED loggerVars /\ UNCHANGED pureVars /\ UNCHANGED router

\* makeFlat: the separator before pair i (a read of level when there is
\* one), and the key
LogSep ==
    /\ gor.pc = "sep"
    /\ \E lvl \in readLevel :
          gor' = [gor EXCEPT
                    !.buf = @ \o flatSep(jsonOutput(lvl), gor.i, gor.keepOn)
                              \o flatKey(gor.list, gor.i, gor.phase = 2),
                    !.pc = "delim"]
    /\ race' = (race \/ (writing /\ (gor.i > 0 \/ gor.keepOn)))
    /\ UNCHANGED <<wr>>
    /\ UNCHANGED loggerVars /\ UNCHANGED pureVars /\ UNCHANGED router

\* makeFlat: the delimiter after the key of pair i, and the value
LogDelim ==
    /\ gor.pc = "delim"
    /\ \E lvl \in readLevel :
          gor' = [gor EXCEPT
                    !.buf = @ \o flatVal(jsonOutput(lvl), gor.list, gor.i),
                    !.i = @ + 2,
                    !.pc = afterPair(gor.list, gor.i + 2, gor.phase)]
    /\ race' = (race \/ writing)
    /\ UNCHANGED <<wr>>
    /\ UNCHANGED loggerVars /\ UNCHANGED pureVars /\ UNCHANGED router

\* render between its two makeFlat calls: the bound fields (a read of level
\* when there are some to separate), and rectify(args)
LogBound ==
    /\ gor.pc = "bound"
    /\ LET keepOn == Len(gor.implicit) > 0
           reads == Len(valuesStr) > 0 /\ keepOn
       IN /\ \E lvl \in readLevel :
                gor' = [gor EXCEPT
                          !.buf = @ \o renderBound(jsonOutput(lvl), valuesStr, keepOn),
                          !.keepOn = keepOn \/ Len(valuesStr) > 0,
                          !.list = flatPad(rectify(gor.args)),
                          !.i = 0,
                          !.phase = 2,
                          !.pc = afterPair(flatPad(rectify(gor.args)), 0, 2)]
          /\ race' = (race \/ (writing /\ reads))
    /\ UNCHANGED <<wr>>
    /\ UNCHANGED loggerVars /\ UNCHANGED pureVars /\ UNCHANGED router

\* render: the closing brace
LogClose ==
    /\ gor.pc = "close"
    /\ \E lvl \in readLevel :
          gor' = [gor EXCEPT
                    !.buf = @ \o (IF jsonOutput(lvl) THEN "}" ELSE ""),
                    !.pc = "output"]
    /\ race' = (race \/ writing)
    /\ UNCHANGED <<wr>>
    /\ UNCHANGED loggerVars /\ UNCHANGED pureVars /\ UNCHANGED router

\* Debug / Info / Error: the prefix, and sl.logger.Output
LogWrite ==
    /\ gor.pc = "output"
    /\ sink' = Append(sink, lineOf(<<gor.prefix, gor.buf>>))
    /\ calls' = Append(calls, gor.call)
    /\ gor' = Idle
    /\ UNCHANGED <<level, prefix, valuesStr, output, enabledRet, lastSet, wr, race>>
    /\ UNCHANGED pureVars /\ UNCHANGED router

NextConc ==
    \/ \E l \in ConcLevels : SetLevelBegin(l)
    \/ SetLevelEnd
    \/ \E l \in ConcLevels : EnabledRead(l)
    \/ \E kind \in {LogLevel.Debug, LogLevel.Info}, ts \in Timestamps,
          msg \in Messages, kv \in LogKvs : LogFormat(kind, ts, NilV, msg, kv)
    \/ \E ts \in Timestamps, err \in ErrInputs, msg \in Messages, kv \in LogKvs :
          LogFormat(LogLevel.Error, ts, err, msg, kv)
    \/ LogOpen
    \/ LogSep
    \/ LogDelim
    \/ LogBound
    \/ LogClose
    \/ LogWrite

SpecConc == InitConc /\ [][NextConc]_vars

\* the line of a call composed wholly in one mode: by a logger whose level
\* read as lvl at every step
wholeLine(c, lvl) ==
    IF c.kind = LogLevel.Error
    THEN lineOf(FormatError(lvl, prefix, valuesStr, c.ts, c.err, c.msg, c.kv))
    ELSE lineOf(FormatInfo(lvl, prefix, valuesStr, c.ts, c.msg, c.kv))

endsJSON(line) == Len(line) > 0 /\ SubSeq(line, Len(line), Len(line)) = "}"

\* C5: a SetLevel running concurrently with a log call cannot alter the line
\* being composed: every line handed to the sink is wholly in one mode, the
\* flat line or the JSON line of its call, and it starts with "{" if and
\* only if it ends with "}".
C5_WhollyOneMode ==
    \A i \in 1..Len(sink) :
        /\ sink[i] \in {wholeLine(calls[i], LogOutput.JSON),
                        wholeLine(calls[i], LogOutput.KeyValue)}
        /\ startsJSON(sink[i]) <=> endsJSON(sink[i])

\* C6: access to the configured level is synchronized: no read of the level
\* field (Enabled, Debug, Info, Error) overlaps a write of it (SetLevel).
C6_NoRaceOnLevel == race = FALSE

---------------------------------------------------------------------------
(* ValueRenderer on its own: prettifyValue applied to a drawn value with   *)
(* methods                                                                 *)

PlainValues == {Str("plain"), IntV(7), NilV}

\* values of declared types that are not Marshalable: with String(), with
\* Error(), with both, with neither
NonLoggables ==
    {ObjV(c, NilV, "str", "err", u) :
        c \in SUBSET {"Stringer", "error"}, u \in {IntV(1), InnerStruct}}

\* the values whose chain of Log() results has at most n links
RECURSIVE Chains(_)
Chains(n) ==
    IF n = 0 THEN PlainValues \cup NonLoggables
    ELSE Chains(n - 1) \cup
         {ObjV({"Marshalable"} \cup c, l, "str", "err", InnerStruct) :
             c \in SUBSET {"Stringer", "error"}, l \in Chains(n - 1)}

InitResolve ==
    /\ loggerAtRest
    /\ pvIn \in Chains(MaxChain)
    /\ pvOut = None /\ rectIn = None /\ rectOut = None
    /\ gor = Idle /\ wr = NoWrite /\ race = FALSE
    /\ router = NewRouter

SpecResolve == InitResolve /\ [][NextRender]_vars

\* the final non-loggable representation of a value: Log() applied for as
\* long as the result is loggable
RECURSIVE resolved(_)
resolved(v) == IF isMarshalable(v) THEN resolved(v.log) ELSE v

\* the documented rendering of a non-loggable value: stringable, then
\* error-like, then by kind
renderResolved(v) ==
    IF isStringer(v) THEN prettify(v.str)
    ELSE IF isError(v) THEN prettify(v.msg)
    ELSE prettifyValue(v)

\* C11: resolution is loggable, then stringable, then error-like, first match
\* wins, and a loggable value's substitute restarts resolution: the rendering
\* of a value is the rendering of the final non-loggable representation in
\* its chain of Log() results.
C11_LoggableChain ==
    pvOut # None => pvOut = Str(renderResolved(resolved(pvIn)))

---------------------------------------------------------------------------
(* Router: the rate setters *)

\* the / of Go on int: the quotient truncated toward zero (b # 0)
GoDiv(a, b) ==
    IF (a >= 0) = (b > 0)
    THEN (IF a >= 0 THEN a ELSE 0 - a) \div (IF b > 0 THEN b ELSE 0 - b)
    ELSE 0 - ((IF a >= 0 THEN a ELSE 0 - a) \div (IF b > 0 THEN b ELSE 0 - b))

RateInputs == (0 - MaxReqs)..MaxReqs

InitRouter ==
    /\ loggerAtRest
    /\ rectIn = None /\ rectOut = None /\ pvIn = None /\ pvOut = None
    /\ gor = Idle /\ wr = NoWrite /\ race = FALSE
    /\ router = NewRouter

\* the field after  if n <= 0 { rate = 0 };  rate = secs / n : the division
\* by 0 panics, after the assignment of 0
rateAfter(secs, n) == IF n = 0 THEN 0 ELSE GoDiv(secs, n)

SetHourlyRate(maxReqsPerHour) ==
    /\ ~router.panicked
    /\ router' = [router EXCEPT
                    !.hourlyRate = rateAfter(hourInSecs, maxReqsPerHour),
                    !.panicked = (maxReqsPerHour = 0),
                    !.op = "SetHourlyRate",
                    !.n = maxReqsPerHour]
    /\ UNCHANGED loggerVars /\ UNCHANGED pureVars /\ UNCHANGED concVars

SetDailyRate(maxReqsPerDay) ==
    /\ ~router.panicked
    /\ router' = [router EXCEPT
                    !.dailyRate = rateAfter(dayInSecs, maxReqsPerDay),
                    !.panicked = (maxReqsPerDay = 0),
                    !.op = "SetDailyRate",
                    !.n = maxReqsPerDay]
    /\ UNCHANGED loggerVars /\ UNCHANGED pureVars /\ UNCHANGED concVars

NextRouter ==
    \/ \E n \in RateInputs : SetHourlyRate(n)
    \/ \E n \in RateInputs : SetDailyRate(n)

SpecRouter == InitRouter /\ [][NextRouter]_vars

\* C12: SetHourlyRate(n) and SetDailyRate(n) with n <= 0 complete without
\* fault and leave hourlyRate, dailyRate equal to 0; with n > 0 the rate
\* becomes 3600 / n, 86400 / n (integer division).
C12_RateSetters ==
    /\ ~router.panicked
    /\ router.op = "SetHourlyRate" =>
           router.hourlyRate = (IF router.n <= 0 THEN 0 ELSE 3600 \div router.n)
    /\ router.op = "SetDailyRate" =>
           router.dailyRate = (IF router.n <= 0 THEN 0 ELSE 86400 \div router.n)

=============================================================================
